---- MODULE Spec2Model ----
(***************************************************************************)
(* Model of bot.py: the subscription store (tables subscriptions,          *)
(* schedules, intervals), the JobQueue of armed timers, the command        *)
(* handlers and the timer callback send_rates.                             *)
(*                                                                         *)
(* A handler is a coroutine: it runs without interruption up to an         *)
(* awaited reply, where timer callbacks may run, and resumes afterwards.   *)
(* All store calls are synchronous (psycopg2), so the only suspension      *)
(* points are the awaits of reply_text / send_message.                     *)
(***************************************************************************)
EXTENDS Integers, Sequences, FiniteSets, Bags, TLC

VARIABLES
    subscriptions,  \* table subscriptions: set of rows [chat_id, symbol]
    schedules,      \* table schedules: set of rows [chat_id, notify_time, enabled]
    intervals,      \* table intervals: set of rows [chat_id, interval_minutes, enabled]
    jobs,           \* the JobQueue: bag of armed jobs [name, trigger, due_in]
    pending,        \* handlers suspended at their awaited status reply
    last            \* what the most recent step was and what it produced

vars == <<subscriptions, schedules, intervals, jobs, pending, last>>

store == <<subscriptions, schedules, intervals>>

(***************************************************************************)
(* Bounds and input domains                                                *)
(***************************************************************************)
Chats == {1, 2}

\* most daily jobs of one chat for which another /autoupdate on is still taken
MaxDailyJobs == 2

\* the calls a step makes that can fail: store calls ("store", "get", "upsert",
\* "list", "upsert_schedule", "upsert_interval", the startup queries "schedules" and
\* "intervals") and gateway calls ("reply", "send")
Calls ==
    {"store", "get", "upsert", "list", "upsert_schedule", "upsert_interval",
     "schedules", "intervals", "reply", "send"}

\* the calls of one step that fail: any of those D.faults lets fail
Faults(D, calls) == SUBSET (calls \cap D.faults)

\* ApplicationBuilder().build() leaves concurrent_updates off: one update at a time
ConcurrentUpdates == 1

\* `if context.job_queue:` - the build has the job-queue extra installed
JobQueueAvailable == TRUE

\* NULL of a nullable column / Python None for a time or a number
NULL == -1

\* A ticker text is the sequence of its character codes (ASCII).
btc == <<98, 116, 99>>
Btc == <<66, 116, 99>>
BTC == <<66, 84, 67>>
eth == <<101, 116, 104>>
ETH == <<69, 84, 72>>
USD == <<85, 83, 68>>

\* context.args[0] of /subscribe and /unsubscribe
SymbolArgs == {btc, Btc, BTC, eth, ETH, USD}

\* str.upper(): a lower-case letter becomes its capital, the rest is kept
upper(s) == [i \in 1..Len(s) |-> IF s[i] >= 97 /\ s[i] <= 122 THEN s[i] - 32 ELSE s[i]]

\* context.args of /settime: no argument, or one text, given as the fields
\* t.split(":") yields; a field is [int |-> TRUE, val |-> n] when int() accepts it
Field(n) == [int |-> TRUE, val |-> n]
Junk == [int |-> FALSE, val |-> 0]
TimeArgs ==
    { <<>>,
      << <<Field(8), Field(0)>> >>,
      << <<Field(24), Field(0)>> >>,
      << <<Field(-1), Field(0)>> >>,
      << <<Field(8), Field(60)>> >>,
      << <<Field(8)>> >>,
      << <<Junk, Field(0)>> >> }

\* context.args of /autoupdate
ModeArgs == { <<>>, <<"on">>, <<"OFF">>, <<"maybe">> }

\* str.lower()
lower(s) ==
    CASE s = "OFF" -> "off"
      [] s = "ON" -> "on"
      [] OTHER -> s

\* context.args of /setinterval
IntervalArgs == { <<>>, <<Field(1)>>, <<Field(2)>>, <<Field(0)>>, <<Field(-5)>>, <<Junk>> }

(***************************************************************************)
(* Subscription store. Every operation opens its own connection and        *)
(* transaction; `fail` is a storage failure inside its try block (the      *)
(* transaction is not committed), which the operation logs under its own   *)
(* name and turns into its default result. Each operator yields            *)
(* [tbl: the table afterwards, ret: the returned value, log: entries       *)
(* written by logger.error / log_error_to_db].                             *)
(***************************************************************************)
LogEntry(function_name, chat_id) == [function_name |-> function_name, chat_id |-> chat_id]

\* add_subscription storing the symbol as given
add_subscription_as_given(tbl, chat_id, symbol, fail) ==
    LET row == [chat_id |-> chat_id, symbol |-> symbol]
    IN  IF fail
        THEN [tbl |-> tbl, ret |-> FALSE, log |-> <<LogEntry("add_subscription", chat_id)>>]
        ELSE [tbl |-> tbl \cup {row}, ret |-> (row \notin tbl), log |-> <<>>]

add_subscription(tbl, chat_id, symbol, fail) ==
    LET row == [chat_id |-> chat_id, symbol |-> upper(symbol)]
    IN  IF fail
        THEN [tbl |-> tbl, ret |-> FALSE, log |-> <<LogEntry("add_subscription", chat_id)>>]
        ELSE [tbl |-> tbl \cup {row}, ret |-> (row \notin tbl), log |-> <<>>]

\* remove_subscription whose DELETE has no chat_id condition
remove_subscription_any_chat(tbl, chat_id, symbol, fail) ==
    LET rows == {r \in tbl : r.symbol = upper(symbol)}
    IN  IF fail
        THEN [tbl |-> tbl, ret |-> FALSE, log |-> <<LogEntry("remove_subscription", chat_id)>>]
        ELSE [tbl |-> tbl \ rows, ret |-> (Cardinality(rows) = 1), log |-> <<>>]

remove_subscription(tbl, chat_id, symbol, fail) ==
    LET row == [chat_id |-> chat_id, symbol |-> upper(symbol)]
    IN  IF fail
        THEN [tbl |-> tbl, ret |-> FALSE, log |-> <<LogEntry("remove_subscription", chat_id)>>]
        ELSE [tbl |-> tbl \ {row}, ret |-> (row \in tbl), log |-> <<>>]

\* clear_subscriptions whose DELETE has no WHERE condition
clear_subscriptions_every_chat(tbl, chat_id, fail) ==
    IF fail
    THEN [tbl |-> tbl, ret |-> 0, log |-> <<LogEntry("clear_subscriptions", chat_id)>>]
    ELSE [tbl |-> {}, ret |-> Cardinality(tbl), log |-> <<>>]

clear_subscriptions(tbl, chat_id, fail) ==
    LET rows == {r \in tbl : r.chat_id = chat_id}
    IN  IF fail
        THEN [tbl |-> tbl, ret |-> 0, log |-> <<LogEntry("clear_subscriptions", chat_id)>>]
        ELSE [tbl |-> tbl \ rows, ret |-> Cardinality(rows), log |-> <<>>]

\* the order of two texts under ORDER BY: by the first character that differs, a
\* proper prefix first
RECURSIVE precedes(_, _)
precedes(a, b) ==
    IF a = <<>> THEN b # <<>>
    ELSE IF b = <<>> THEN FALSE
    ELSE IF Head(a) # Head(b) THEN Head(a) < Head(b)
    ELSE precedes(Tail(a), Tail(b))

\* the texts of a set in descending order, as ORDER BY symbol DESC gives them
RECURSIVE order_by_descending(_)
order_by_descending(S) ==
    IF S = {} THEN <<>>
    ELSE LET first == CHOOSE x \in S : \A y \in S \ {x} : precedes(y, x)
         IN  <<first>> \o order_by_descending(S \ {first})

\* SELECT ... ORDER BY symbol: the texts of a set in ascending order
RECURSIVE order_by(_)
order_by(S) ==
    IF S = {} THEN <<>>
    ELSE LET first == CHOOSE x \in S : \A y \in S \ {x} : precedes(x, y)
         IN  <<first>> \o order_by(S \ {first})

list_subscriptions(tbl, chat_id, fail) ==
    LET symbols == {r.symbol : r \in {x \in tbl : x.chat_id = chat_id}}
    IN  IF fail
        THEN [tbl |-> tbl, ret |-> <<>>, log |-> <<LogEntry("list_subscriptions", chat_id)>>]
        ELSE [tbl |-> tbl, ret |-> order_by(symbols), log |-> <<>>]

\* a TIME value is minutes since midnight; a time text is its ":"-separated fields
strftime(time_obj) == <<Field(time_obj \div 60), Field(time_obj % 60)>>

\* what the TIME column holds for a text the handler has validated
time_of(hh, mm) == hh * 60 + mm

\* the schedules table has no stated NOT NULL: `accept_null` is whether the schema
\* takes a NULL notify_time; a rejected insert is a storage failure
upsert_schedule(tbl, chat_id, notify_time, enabled, accept_null, fail) ==
    IF fail \/ (notify_time = NULL /\ ~accept_null)
    THEN [tbl |-> tbl, ret |-> NULL, log |-> <<LogEntry("upsert_schedule", chat_id)>>]
    ELSE [tbl |-> {r \in tbl : r.chat_id # chat_id}
                    \cup {[chat_id |-> chat_id, notify_time |-> notify_time, enabled |-> enabled]},
          ret |-> NULL, log |-> <<>>]

\* get_schedule whose except branch returns the default without logging
get_schedule_unlogged(tbl, chat_id, fail) ==
    LET rows == {r \in tbl : r.chat_id = chat_id}
        row == CHOOSE r \in rows : TRUE
    IN  IF fail \/ (rows # {} /\ row.notify_time = NULL)
        THEN [tbl |-> tbl, ret |-> << <<>>, FALSE >>, log |-> <<>>]
        ELSE IF rows # {}
        THEN [tbl |-> tbl, ret |-> <<strftime(row.notify_time), row.enabled>>, log |-> <<>>]
        ELSE [tbl |-> tbl, ret |-> << <<>>, FALSE >>, log |-> <<>>]

\* returns (time text or None, enabled); None is the empty text <<>>.
\* A row with NULL notify_time makes strftime raise, which is caught like a failure.
get_schedule(tbl, chat_id, fail) ==
    LET rows == {r \in tbl : r.chat_id = chat_id}
        row == CHOOSE r \in rows : TRUE
    IN  IF fail \/ (rows # {} /\ row.notify_time = NULL)
        THEN [tbl |-> tbl, ret |-> << <<>>, FALSE >>, log |-> <<LogEntry("get_schedule", chat_id)>>]
        ELSE IF rows # {}
        THEN [tbl |-> tbl, ret |-> <<strftime(row.notify_time), row.enabled>>, log |-> <<>>]
        ELSE [tbl |-> tbl, ret |-> << <<>>, FALSE >>, log |-> <<>>]

\* upsert_interval that takes the INSERT ... ON CONFLICT branch for None too
upsert_interval_insert_none(tbl, chat_id, interval_minutes, enabled, fail) ==
    IF fail
    THEN [tbl |-> tbl, ret |-> NULL, log |-> <<LogEntry("upsert_interval", chat_id)>>]
    ELSE [tbl |-> {r \in tbl : r.chat_id # chat_id}
                    \cup {[chat_id |-> chat_id, interval_minutes |-> interval_minutes,
                           enabled |-> enabled]},
          ret |-> NULL, log |-> <<>>]

upsert_interval(tbl, chat_id, interval_minutes, enabled, fail) ==
    IF fail
    THEN [tbl |-> tbl, ret |-> NULL, log |-> <<LogEntry("upsert_interval", chat_id)>>]
    ELSE IF interval_minutes = NULL
    THEN [tbl |-> {IF r.chat_id = chat_id THEN [r EXCEPT !.enabled = enabled] ELSE r : r \in tbl},
          ret |-> NULL, log |-> <<>>]
    ELSE [tbl |-> {r \in tbl : r.chat_id # chat_id}
                    \cup {[chat_id |-> chat_id, interval_minutes |-> interval_minutes,
                           enabled |-> enabled]},
          ret |-> NULL, log |-> <<>>]

get_interval(tbl, chat_id, fail) ==
    LET rows == {r \in tbl : r.chat_id = chat_id}
        row == CHOOSE r \in rows : TRUE
    IN  IF fail
        THEN [tbl |-> tbl, ret |-> <<NULL, FALSE>>, log |-> <<LogEntry("get_interval", chat_id)>>]
        ELSE IF rows # {}
        THEN [tbl |-> tbl, ret |-> <<row.interval_minutes, row.enabled>>, log |-> <<>>]
        ELSE [tbl |-> tbl, ret |-> <<NULL, FALSE>>, log |-> <<>>]

(***************************************************************************)
(* JobQueue. A job is [name, trigger, due_in]: name is <<kind, chat_id>>   *)
(* (the code builds "daily_<chat_id>" / "interval_<chat_id>" and the       *)
(* callback reads the chat id back from the last "_" part), trigger is the *)
(* time of day of a daily job or the period in minutes of a repeating job, *)
(* due_in is the minutes until a repeating job's next run. The wall clock  *)
(* is not modelled: a daily job may run at any step.                       *)
(***************************************************************************)
JobName(kind, chat_id) == <<kind, chat_id>>

Job(kind, chat_id, trigger, due_in) ==
    [name |-> JobName(kind, chat_id), trigger |-> trigger, due_in |-> due_in]

chat_of(job) == job.name[2]

kind_of(job) == job.name[1]

get_jobs_by_name(q, name) == {j \in BagToSet(q) : j.name = name}

\* removal of the jobs whose name begins as the name given does: every chat's jobs
\* of the kind
remove_jobs_of_kind(q, name) ==
    LET keep == {j \in BagToSet(q) : kind_of(j) # name[1]}
    IN  [j \in keep |-> q[j]]

\* for job in jobs: job.schedule_removal()
remove_jobs(q, name) ==
    LET keep == BagToSet(q) \ get_jobs_by_name(q, name)
    IN  [j \in keep |-> q[j]]

\* job.schedule_removal() of one job instance
schedule_removal(q, job) == q (-) SetToBag({job})

run_daily(q, notify_time_obj, chat_id) ==
    q (+) SetToBag({Job("daily", chat_id, notify_time_obj, 0)})

\* run_repeating called without first: the first run comes one interval later
run_repeating_without_first(q, interval, first, chat_id) ==
    q (+) SetToBag({Job("interval", chat_id, interval, interval)})

run_repeating(q, interval, first, chat_id) ==
    q (+) SetToBag({Job("interval", chat_id, interval, first)})

\* the JobQueue after a job has run and stays armed: a repeating job is next due
\* one period later
rescheduled(q, job) ==
    IF kind_of(job) = "interval"
    THEN (q (-) SetToBag({job})) (+) SetToBag({[job EXCEPT !.due_in = job.trigger]})
    ELSE q

NumJobs(q, name) ==
    LET js == get_jobs_by_name(q, name)
        RECURSIVE Sum(_)
        Sum(S) == IF S = {} THEN 0
                  ELSE LET j == CHOOSE x \in S : TRUE IN CopiesIn(j, q) + Sum(S \ {j})
    IN  Sum(js)

(***************************************************************************)
(* What a step reports in `last`: the handler or callback that ran, the    *)
(* chat, a detail (the kind of the job that fired; whether a start         *)
(* followed a crash inside a handler), the branch taken, the jobs it       *)
(* removed from the JobQueue and the error-log entries it appended         *)
(* (error_logs is append-only and never read, so only the entries of the   *)
(* latest step are kept).                                                  *)
(***************************************************************************)
Report(op, chat_id, detail, outcome, cancelled, logged) ==
    [op |-> op, chat |-> chat_id, detail |-> detail, outcome |-> outcome,
     cancelled |-> cancelled, logged |-> logged]

\* the jobs of a name, as the bag a handler removes
jobs_named(q, name) == [j \in get_jobs_by_name(q, name) |-> q[j]]

\* the except branch of a handler: logger.error and log_error_to_db under its name
Caught(handler, chat_id, raised) ==
    IF raised THEN <<LogEntry(handler, chat_id)>> ELSE <<>>

\* a handler suspended at `await update.message.reply_text(...)`
Suspended(cmd, chat_id, arg, param) ==
    [cmd |-> cmd, chat |-> chat_id, arg |-> arg, param |-> param]

RemoveAt(seq, i) == SubSeq(seq, 1, i - 1) \o SubSeq(seq, i + 1, Len(seq))

(***************************************************************************)
(* Subscription commands: the store call, then the awaited reply; nothing  *)
(* follows the reply, so each is one step. F is the set of calls that      *)
(* fail: "store" a storage failure, "reply" reply_text raising.            *)
(***************************************************************************)
subscribe_cmd(chat_id, args, F) ==
    LET r == add_subscription(subscriptions, chat_id, upper(args[1]), "store" \in F)
    IN  /\ subscriptions' = IF args = <<>> THEN subscriptions ELSE r.tbl
        /\ last' = Report("subscribe_cmd", chat_id, "",
                          IF "reply" \in F THEN "reply_failed"
                          ELSE IF args = <<>> THEN "usage"
                          ELSE IF r.ret THEN "subscribed" ELSE "not_subscribed",
                          EmptyBag,
                          (IF args = <<>> THEN <<>> ELSE r.log)
                              \o Caught("subscribe_cmd", chat_id, "reply" \in F))
        /\ UNCHANGED <<schedules, intervals, jobs, pending>>

unsubscribe_cmd(chat_id, args, F) ==
    LET r == remove_subscription(subscriptions, chat_id, upper(args[1]), "store" \in F)
    IN  /\ subscriptions' = IF args = <<>> THEN subscriptions ELSE r.tbl
        /\ last' = Report("unsubscribe_cmd", chat_id, "",
                          IF "reply" \in F THEN "reply_failed"
                          ELSE IF args = <<>> THEN "usage"
                          ELSE IF r.ret THEN "unsubscribed" ELSE "was_not_subscribed",
                          EmptyBag,
                          (IF args = <<>> THEN <<>> ELSE r.log)
                              \o Caught("unsubscribe_cmd", chat_id, "reply" \in F))
        /\ UNCHANGED <<schedules, intervals, jobs, pending>>

\* unsubscribe_all_cmd that also disables the chat's schedules and removes its jobs
unsubscribe_all_cmd_cancelling(chat_id, F) ==
    LET r == clear_subscriptions(subscriptions, chat_id, "store" \in F)
    IN  /\ subscriptions' = r.tbl
        /\ schedules' = {IF x.chat_id = chat_id THEN [x EXCEPT !.enabled = FALSE] ELSE x :
                            x \in schedules}
        /\ intervals' = {IF x.chat_id = chat_id THEN [x EXCEPT !.enabled = FALSE] ELSE x :
                            x \in intervals}
        /\ jobs' = remove_jobs(remove_jobs(jobs, JobName("daily", chat_id)),
                               JobName("interval", chat_id))
        /\ last' = Report("unsubscribe_all_cmd", chat_id, "",
                          IF "reply" \in F THEN "reply_failed"
                          ELSE IF r.ret > 0 THEN "unsubscribed" ELSE "had_none",
                          EmptyBag,
                          r.log \o Caught("unsubscribe_all_cmd", chat_id, "reply" \in F))
        /\ UNCHANGED pending

unsubscribe_all_cmd(chat_id, F) ==
    LET r == clear_subscriptions(subscriptions, chat_id, "store" \in F)
    IN  /\ subscriptions' = r.tbl
        /\ last' = Report("unsubscribe_all_cmd", chat_id, "",
                          IF "reply" \in F THEN "reply_failed"
                          ELSE IF r.ret > 0 THEN "unsubscribed" ELSE "had_none",
                          EmptyBag,
                          r.log \o Caught("unsubscribe_all_cmd", chat_id, "reply" \in F))
        /\ UNCHANGED <<schedules, intervals, jobs, pending>>

\* `for sym in symbols: add_subscription(chat_id, sym)`; failing holds the symbols
\* whose call hits a storage failure
RECURSIVE add_each(_, _, _, _)
add_each(tbl, chat_id, symbols, failing) ==
    IF symbols = <<>> THEN [tbl |-> tbl, added |-> <<>>, log |-> <<>>]
    ELSE LET r == add_subscription(tbl, chat_id, Head(symbols), Head(symbols) \in failing)
             rest == add_each(r.tbl, chat_id, Tail(symbols), failing)
         IN  [tbl |-> rest.tbl,
              added |-> (IF r.ret THEN <<Head(symbols)>> ELSE <<>>) \o rest.added,
              log |-> r.log \o rest.log]

\* /subscribe_top20: listing is what the provider answers; F: "top20" the request
\* raising inside get_top20_symbols (logged there without a chat, [] returned),
\* "reply" the reply raising
subscribe_top20_cmd(chat_id, listing, failing, F) ==
    LET symbols == IF "top20" \in F THEN <<>> ELSE listing
        fetched == IF "top20" \in F THEN <<LogEntry("get_top20_symbols", NULL)>> ELSE <<>>
        r == add_each(subscriptions, chat_id, symbols, failing)
    IN  /\ subscriptions' = r.tbl
        /\ last' = Report("subscribe_top20_cmd", chat_id, r.added,
                          IF "reply" \in F THEN "reply_failed"
                          ELSE IF symbols = <<>> THEN "unavailable" ELSE "subscribed",
                          EmptyBag,
                          fetched \o r.log \o Caught("subscribe_top20_cmd", chat_id, "reply" \in F))
        /\ UNCHANGED <<schedules, intervals, jobs, pending>>

\* /list
list_cmd(chat_id, F) ==
    LET l == list_subscriptions(subscriptions, chat_id, "list" \in F)
    IN  /\ last' = Report("list_cmd", chat_id, l.ret,
                          IF "reply" \in F THEN "reply_failed"
                          ELSE IF l.ret # <<>> THEN "listed" ELSE "none",
                          EmptyBag,
                          l.log \o Caught("list_cmd", chat_id, "reply" \in F))
        /\ UNCHANGED <<store, jobs, pending>>

(***************************************************************************)
(* Schedule commands. F: "get" / "upsert" storage failures of the store    *)
(* calls, "reply" the awaited reply raising.                               *)
(***************************************************************************)
\* the range check written as 0 <= hh <= 24
valid_time_to_24(fields) ==
    /\ Len(fields) = 2
    /\ fields[1].int /\ fields[2].int
    /\ 0 <= fields[1].val /\ fields[1].val <= 24
    /\ 0 <= fields[2].val /\ fields[2].val < 60

\* hh, mm = map(int, t.split(":")) succeeds and 0 <= hh < 24 and 0 <= mm < 60
valid_time(fields) ==
    /\ Len(fields) = 2
    /\ fields[1].int /\ fields[2].int
    /\ 0 <= fields[1].val /\ fields[1].val < 24
    /\ 0 <= fields[2].val /\ fields[2].val < 60

\* the TIME value of a time text (None gives NULL)
time_value(fields) ==
    IF fields = <<>> THEN NULL ELSE time_of(fields[1].val, fields[2].val)

\* /settime: one step (nothing follows the reply but the except branch)
settime_cmd(chat_id, args, F) ==
    LET ok == args # <<>> /\ valid_time(args[1])
        u  == upsert_schedule(schedules, chat_id, time_value(args[1]), FALSE, TRUE,
                              "upsert" \in F)
    IN  /\ schedules' = IF ok THEN u.tbl ELSE schedules
        /\ last' = Report("settime_cmd", chat_id, args,
                          IF args # <<>> /\ ~ok THEN "invalid"
                          ELSE IF "reply" \in F THEN "reply_failed"
                          ELSE IF args = <<>> THEN "usage" ELSE "set",
                          EmptyBag,
                          (IF ok THEN u.log ELSE <<>>)
                              \o Caught("settime_cmd", chat_id,
                                        (args # <<>> /\ ~ok) \/ "reply" \in F))
        /\ UNCHANGED <<subscriptions, intervals, jobs, pending>>

\* /autoupdate up to its awaited reply. Modes on and off write the store and then
\* suspend at the reply; the other branches reply and return.
autoupdate_cmd(chat_id, args, F) ==
    LET mode == lower(args[1])
        g == get_schedule(schedules, chat_id, "get" \in F)
        notify_time_str == g.ret[1]
        notify_time_obj == time_value(notify_time_str)
        u == upsert_schedule(schedules, chat_id, time_value(notify_time_str),
                             mode = "on", TRUE, "upsert" \in F)
    IN  IF args = <<>>
        THEN /\ last' = Report("autoupdate_cmd", chat_id, "",
                               IF "reply" \in F THEN "reply_failed" ELSE "usage", EmptyBag,
                               Caught("autoupdate_cmd", chat_id, "reply" \in F))
             /\ UNCHANGED <<store, jobs, pending>>
        ELSE IF notify_time_str = <<>>
        THEN /\ last' = Report("autoupdate_cmd", chat_id, "",
                               IF "reply" \in F THEN "reply_failed" ELSE "need_time", EmptyBag,
                               g.log \o Caught("autoupdate_cmd", chat_id, "reply" \in F))
             /\ UNCHANGED <<store, jobs, pending>>
        ELSE IF mode \in {"on", "off"}
        THEN /\ "reply" \notin F
             /\ schedules' = u.tbl
             /\ pending' = Append(pending, Suspended("autoupdate_cmd", chat_id, mode,
                                                     notify_time_obj))
             /\ last' = Report("await", chat_id, "", "autoupdate_cmd", EmptyBag, g.log \o u.log)
             /\ UNCHANGED <<subscriptions, intervals, jobs>>
        ELSE /\ last' = Report("autoupdate_cmd", chat_id, "",
                               IF "reply" \in F THEN "reply_failed" ELSE "bad_mode", EmptyBag,
                               g.log \o Caught("autoupdate_cmd", chat_id, "reply" \in F))
             /\ UNCHANGED <<store, jobs, pending>>

\* /autoupdate after its reply: the reply raising skips the JobQueue calls
autoupdate_resume(i, reply_ok) ==
    LET h == pending[i]
        name == JobName("daily", h.chat)
        touch == reply_ok /\ JobQueueAvailable
    IN  /\ h.cmd = "autoupdate_cmd"
        /\ pending' = RemoveAt(pending, i)
        /\ jobs' = IF ~touch THEN jobs
                   ELSE IF h.arg = "on" THEN run_daily(jobs, h.param, h.chat)
                   ELSE remove_jobs(jobs, name)
        /\ last' = Report("autoupdate_cmd", h.chat, "",
                          IF reply_ok THEN h.arg ELSE "reply_failed",
                          IF touch /\ h.arg = "off" THEN jobs_named(jobs, name) ELSE EmptyBag,
                          Caught("autoupdate_cmd", h.chat, ~reply_ok))
        /\ UNCHANGED store

\* minutes = int(context.args[0]) succeeds and minutes > 0
valid_minutes(field) == field.int /\ field.val > 0

\* /setinterval up to its awaited reply
setinterval_cmd(chat_id, args, F) ==
    LET ok == args # <<>> /\ valid_minutes(args[1])
        minutes == args[1].val
        u == upsert_interval(intervals, chat_id, minutes, TRUE, "upsert" \in F)
    IN  IF ok
        THEN /\ "reply" \notin F
             /\ intervals' = u.tbl
             /\ pending' = Append(pending, Suspended("setinterval_cmd", chat_id, "set", minutes))
             /\ last' = Report("await", chat_id, "", "setinterval_cmd", EmptyBag, u.log)
             /\ UNCHANGED <<subscriptions, schedules, jobs>>
        ELSE /\ last' = Report("setinterval_cmd", chat_id, args,
                               IF args # <<>> THEN "invalid"
                               ELSE IF "reply" \in F THEN "reply_failed" ELSE "usage",
                               EmptyBag,
                               Caught("setinterval_cmd", chat_id, args # <<>> \/ "reply" \in F))
             /\ UNCHANGED <<store, jobs, pending>>

\* the new timer's first run: run_repeating(..., first=0)
first_run == 0

\* /setinterval arming the new job without removing the jobs found
setinterval_resume_no_cancel(i, reply_ok) ==
    LET h == pending[i]
        name == JobName("interval", h.chat)
        touch == reply_ok /\ JobQueueAvailable
    IN  /\ h.cmd = "setinterval_cmd"
        /\ pending' = RemoveAt(pending, i)
        /\ jobs' = IF touch
                   THEN run_repeating(jobs, h.param, first_run, h.chat)
                   ELSE jobs
        /\ last' = Report("setinterval_cmd", h.chat, <<Field(h.param)>>,
                          IF reply_ok THEN "set" ELSE "reply_failed",
                          EmptyBag,
                          Caught("setinterval_cmd", h.chat, ~reply_ok))
        /\ UNCHANGED store

\* /setinterval removing only the jobs that already run with the new period
setinterval_resume_same_period(i, reply_ok) ==
    LET h == pending[i]
        name == JobName("interval", h.chat)
        touch == reply_ok /\ JobQueueAvailable
        found == {j \in get_jobs_by_name(jobs, name) : j.trigger = h.param}
        keep == BagToSet(jobs) \ found
    IN  /\ h.cmd = "setinterval_cmd"
        /\ pending' = RemoveAt(pending, i)
        /\ jobs' = IF touch
                   THEN run_repeating([j \in keep |-> jobs[j]], h.param, first_run, h.chat)
                   ELSE jobs
        /\ last' = Report("setinterval_cmd", h.chat, <<Field(h.param)>>,
                          IF reply_ok THEN "set" ELSE "reply_failed",
                          IF touch THEN [j \in found |-> jobs[j]] ELSE EmptyBag,
                          Caught("setinterval_cmd", h.chat, ~reply_ok))
        /\ UNCHANGED store

\* /setinterval after its reply: cancel the chat's interval jobs, arm the new one
setinterval_resume(i, reply_ok) ==
    LET h == pending[i]
        name == JobName("interval", h.chat)
        touch == reply_ok /\ JobQueueAvailable
    IN  /\ h.cmd = "setinterval_cmd"
        /\ pending' = RemoveAt(pending, i)
        /\ jobs' = IF touch
                   THEN run_repeating(remove_jobs(jobs, name), h.param, first_run, h.chat)
                   ELSE jobs
        /\ last' = Report("setinterval_cmd", h.chat, <<Field(h.param)>>,
                          IF reply_ok THEN "set" ELSE "reply_failed",
                          IF touch THEN jobs_named(jobs, name) ELSE EmptyBag,
                          Caught("setinterval_cmd", h.chat, ~reply_ok))
        /\ UNCHANGED store

\* /clearinterval up to its awaited reply
clearinterval_cmd(chat_id, F) ==
    LET g == get_interval(intervals, chat_id, "get" \in F)
        enabled == g.ret[2]
        u == upsert_interval(intervals, chat_id, NULL, FALSE, "upsert" \in F)
    IN  IF ~enabled
        THEN /\ last' = Report("clearinterval_cmd", chat_id, "",
                               IF "reply" \in F THEN "reply_failed" ELSE "already_off", EmptyBag,
                               g.log \o Caught("clearinterval_cmd", chat_id, "reply" \in F))
             /\ UNCHANGED <<store, jobs, pending>>
        ELSE /\ "reply" \notin F
             /\ intervals' = u.tbl
             /\ pending' = Append(pending, Suspended("clearinterval_cmd", chat_id, "clear", NULL))
             /\ last' = Report("await", chat_id, "", "clearinterval_cmd", EmptyBag, g.log \o u.log)
             /\ UNCHANGED <<subscriptions, schedules, jobs>>

\* /clearinterval after its reply
clearinterval_resume(i, reply_ok) ==
    LET h == pending[i]
        name == JobName("interval", h.chat)
        touch == reply_ok /\ JobQueueAvailable
    IN  /\ h.cmd = "clearinterval_cmd"
        /\ pending' = RemoveAt(pending, i)
        /\ jobs' = IF touch THEN remove_jobs(jobs, name) ELSE jobs
        /\ last' = Report("clearinterval_cmd", h.chat, "",
                          IF reply_ok THEN "cleared" ELSE "reply_failed",
                          IF touch THEN jobs_named(jobs, name) ELSE EmptyBag,
                          Caught("clearinterval_cmd", h.chat, ~reply_ok))
        /\ UNCHANGED store

(***************************************************************************)
(* Timer callback and startup                                              *)
(***************************************************************************)
\* send_rates disabling, on an empty subscription list, only the schedule of the
\* kind of job that fired
send_rates_own_kind_only(job, F, accept_null) ==
    LET chat_id == chat_of(job)
        l == list_subscriptions(subscriptions, chat_id, "list" \in F)
        subs == l.ret
        g == get_schedule(schedules, chat_id, "get" \in F)
        us == upsert_schedule(schedules, chat_id, time_value(g.ret[1]), FALSE, accept_null,
                              "upsert_schedule" \in F)
        ui == upsert_interval(intervals, chat_id, NULL, FALSE, "upsert_interval" \in F)
    IN  IF subs = <<>>
        THEN /\ "send" \notin F
             /\ schedules' = IF kind_of(job) = "daily" THEN us.tbl ELSE schedules
             /\ intervals' = IF kind_of(job) = "interval" THEN ui.tbl ELSE intervals
             /\ jobs' = schedule_removal(jobs, job)
             /\ last' = Report("send_rates", chat_id, kind_of(job), "cleanup", SetToBag({job}),
                               l.log \o (IF kind_of(job) = "daily" THEN g.log \o us.log ELSE ui.log))
             /\ UNCHANGED <<subscriptions, pending>>
        ELSE /\ F \subseteq {"send"}
             /\ jobs' = rescheduled(jobs, job)
             /\ last' = Report("send_rates", chat_id, kind_of(job),
                               IF "send" \in F THEN "send_failed" ELSE "sent", EmptyBag,
                               Caught("send_rates", chat_id, "send" \in F))
             /\ UNCHANGED <<store, pending>>

\* send_rates removing its job when send_message raises
send_rates_deregister(job, F, accept_null) ==
    LET chat_id == chat_of(job)
        l == list_subscriptions(subscriptions, chat_id, "list" \in F)
        subs == l.ret
        g == get_schedule(schedules, chat_id, "get" \in F)
        us == upsert_schedule(schedules, chat_id, time_value(g.ret[1]), FALSE, accept_null,
                              "upsert_schedule" \in F)
        ui == upsert_interval(intervals, chat_id, NULL, FALSE, "upsert_interval" \in F)
    IN  IF subs = <<>>
        THEN /\ "send" \notin F
             /\ schedules' = us.tbl
             /\ intervals' = ui.tbl
             /\ jobs' = schedule_removal(jobs, job)
             /\ last' = Report("send_rates", chat_id, kind_of(job), "cleanup", SetToBag({job}),
                               l.log \o g.log \o us.log \o ui.log)
             /\ UNCHANGED <<subscriptions, pending>>
        ELSE /\ F \subseteq {"send"}
             /\ jobs' = IF "send" \in F THEN schedule_removal(jobs, job)
                        ELSE rescheduled(jobs, job)
             /\ last' = Report("send_rates", chat_id, kind_of(job),
                               IF "send" \in F THEN "send_failed" ELSE "sent",
                               IF "send" \in F THEN SetToBag({job}) ELSE EmptyBag,
                               Caught("send_rates", chat_id, "send" \in F))
             /\ UNCHANGED <<store, pending>>

\* send_rates for a due job. No await precedes send_message, so the callback is one
\* step. F: "list" / "get" / "upsert_schedule" / "upsert_interval" are storage
\* failures of the four store calls, "send" is send_message raising. accept_null is
\* whether the schema takes a NULL notify_time.
send_rates(job, F, accept_null) ==
    LET chat_id == chat_of(job)
        l == list_subscriptions(subscriptions, chat_id, "list" \in F)
        subs == l.ret
        g == get_schedule(schedules, chat_id, "get" \in F)
        us == upsert_schedule(schedules, chat_id, time_value(g.ret[1]), FALSE, accept_null,
                              "upsert_schedule" \in F)
        ui == upsert_interval(intervals, chat_id, NULL, FALSE, "upsert_interval" \in F)
    IN  IF subs = <<>>
        THEN /\ "send" \notin F
             /\ schedules' = us.tbl
             /\ intervals' = ui.tbl
             /\ jobs' = schedule_removal(jobs, job)
             /\ last' = Report("send_rates", chat_id, kind_of(job), "cleanup", SetToBag({job}),
                               l.log \o g.log \o us.log \o ui.log)
             /\ UNCHANGED <<subscriptions, pending>>
        ELSE /\ F \subseteq {"send"}
             /\ jobs' = rescheduled(jobs, job)
             /\ last' = Report("send_rates", chat_id, kind_of(job),
                               IF "send" \in F THEN "send_failed" ELSE "sent", EmptyBag,
                               Caught("send_rates", chat_id, "send" \in F))
             /\ UNCHANGED <<store, pending>>

\* the jobs on_startup arms for a set of rows, one run_daily / run_repeating per row
RECURSIVE arm_daily(_, _)
arm_daily(q, rows) ==
    IF rows = {} THEN q
    ELSE LET r == CHOOSE x \in rows : TRUE
         IN  arm_daily(run_daily(q, r.notify_time, r.chat_id), rows \ {r})

RECURSIVE arm_intervals(_, _)
arm_intervals(q, rows) ==
    IF rows = {} THEN q
    ELSE LET r == CHOOSE x \in rows : TRUE
         IN  arm_intervals(run_repeating(q, r.interval_minutes, first_run, r.chat_id), rows \ {r})

\* on_startup with queries that leave out WHERE enabled = TRUE
on_startup_every_row(F) ==
    LET daily == {r \in schedules : r.notify_time # NULL}
        repeating == intervals
        armed == IF ~JobQueueAvailable \/ "schedules" \in F THEN EmptyBag
                 ELSE IF "intervals" \in F THEN arm_daily(EmptyBag, daily)
                 ELSE arm_intervals(arm_daily(EmptyBag, daily), repeating)
    IN  /\ jobs' = armed
        /\ pending' = <<>>
        /\ last' = Report("on_startup", 0, IF pending # <<>> THEN "interrupted" ELSE "",
                          IF F = {} THEN "loaded" ELSE "failed", EmptyBag,
                          Caught("on_startup", 0, F # {}))
        /\ UNCHANGED store

\* A process start: memory (the JobQueue, suspended handlers) is gone, the store is
\* what was committed. on_startup re-arms from the store; F is the query, if any,
\* whose storage failure takes it to its except branch.
on_startup(F) ==
    LET daily == {r \in schedules : r.enabled}
        repeating == {r \in intervals : r.enabled}
        armed == IF ~JobQueueAvailable \/ "schedules" \in F THEN EmptyBag
                 ELSE IF "intervals" \in F THEN arm_daily(EmptyBag, daily)
                 ELSE arm_intervals(arm_daily(EmptyBag, daily), repeating)
    IN  /\ jobs' = armed
        /\ pending' = <<>>
        /\ last' = Report("on_startup", 0, IF pending # <<>> THEN "interrupted" ELSE "",
                          IF F = {} THEN "loaded" ELSE "failed", EmptyBag,
                          Caught("on_startup", 0, F # {}))
        /\ UNCHANGED store

\* one minute passes with no repeating job due
RECURSIVE elapse(_, _)
elapse(q, js) ==
    IF js = {} THEN EmptyBag
    ELSE LET j == CHOOSE x \in js : TRUE
             moved == IF kind_of(j) = "interval" THEN [j EXCEPT !.due_in = j.due_in - 1] ELSE j
         IN  [x \in {moved} |-> q[j]] (+) elapse(q, js \ {j})

minute_passes ==
    LET repeating == {j \in BagToSet(jobs) : kind_of(j) = "interval"}
    IN  /\ repeating # {}
        /\ \A j \in repeating : j.due_in > 0
        /\ jobs' = elapse(jobs, BagToSet(jobs))
        /\ last' = Report("minute", 0, "", "passed", EmptyBag, <<>>)
        /\ UNCHANGED <<store, pending>>

(***************************************************************************)
(* The report. A price is a whole number of the smallest unit it is quoted *)
(* in, NULL when get_exchange_rate / get_yesterday_rate returns None. The  *)
(* percentage is kept as the exact fraction num/den; the rounding error of *)
(* the float arithmetic is not modelled. A report line is [sym, arrow,     *)
(* pct_str, price]: arrow "up" is the green circle, "down" the red         *)
(* triangle, "neutral" the record button, "no_data" the question mark;     *)
(* pct_str is <<sign, hundredths of a percent>>, <<>> on a no-data line.   *)
(***************************************************************************)
PriceArgs == {NULL, 0, 1, 90, 99, 100, 101, 110, 200, 30000, 30001}

Abs(x) == IF x < 0 THEN -x ELSE x

\* the fraction without the factor 100.0
percent_as_fraction(current, yesterday) ==
    [num |-> current - yesterday, den |-> yesterday]

\* pct = (current - yesterday)/yesterday*100.0
percent(current, yesterday) ==
    [num |-> (current - yesterday) * 100, den |-> yesterday]

\* pct > 0 and pct < 0
positive(pct) == (pct.num > 0 /\ pct.den > 0) \/ (pct.num < 0 /\ pct.den < 0)

negative(pct) == (pct.num > 0 /\ pct.den < 0) \/ (pct.num < 0 /\ pct.den > 0)

\* f"{pct:.2f}": the sign and the hundredths nearest to pct, a tie to the even one
format_2f(pct) ==
    LET n == (IF pct.den < 0 THEN -pct.num ELSE pct.num) * 100
        d == Abs(pct.den)
        q == n \div d
        r == n % d
        nearest == IF 2 * r < d THEN q
                   ELSE IF 2 * r > d THEN q + 1
                   ELSE IF q % 2 = 0 THEN q ELSE q + 1
    IN  [minus |-> n < 0, hundredths |-> Abs(nearest)]

\* one turn of `for sym in subs:` in rates_cmd and send_rates
rate_line(sym, current, yesterday) ==
    IF current = NULL
    THEN [sym |-> sym, arrow |-> "no_data", pct_str |-> <<>>, price |-> NULL]
    ELSE IF yesterday \notin {NULL, 0}
    THEN LET pct == percent(current, yesterday)
             text == format_2f(pct)
         IN  [sym |-> sym,
              arrow |-> IF positive(pct) THEN "up" ELSE IF negative(pct) THEN "down" ELSE "neutral",
              pct_str |-> <<IF positive(pct) THEN "+" ELSE IF text.minus THEN "-" ELSE "",
                            text.hundredths>>,
              price |-> current]
    ELSE [sym |-> sym, arrow |-> "neutral", pct_str |-> <<"", 0>>, price |-> current]

\* /rates: current and yesterday give what the two rate functions return for each
\* symbol; F: "list" a storage failure of list_subscriptions, "reply" the reply raising
rates_cmd(chat_id, current, yesterday, F) ==
    LET subs == list_subscriptions(subscriptions, chat_id, "list" \in F)
        lines == [i \in 1..Len(subs.ret) |->
                    rate_line(subs.ret[i], current[subs.ret[i]], yesterday[subs.ret[i]])]
    IN  /\ last' = Report("rates_cmd", chat_id,
                          [current |-> current, yesterday |-> yesterday, lines |-> lines],
                          IF "reply" \in F THEN "reply_failed"
                          ELSE IF subs.ret = <<>> THEN "not_subscribed" ELSE "replied",
                          EmptyBag,
                          subs.log \o Caught("rates_cmd", chat_id, "reply" \in F))
        /\ UNCHANGED <<store, jobs, pending>>

(***************************************************************************)
(* The program                                                             *)
(***************************************************************************)
Init ==
    /\ subscriptions = {}
    /\ schedules = {}
    /\ intervals = {}
    /\ jobs = EmptyBag
    /\ pending = <<>>
    /\ last = Report("on_startup", 0, "", "loaded", EmptyBag, <<>>)

ArgLists(S) == {<<>>} \cup {<<s>> : s \in S}

\* The updates and events of one step. D gives the chats that send commands and the
\* arguments they use; a new update is taken up only while fewer than D.limit
\* handlers are running.
Subscribe(D) ==
    /\ Len(pending) < D.limit
    /\ \E c \in D.chats, args \in ArgLists(D.symbols), F \in Faults(D, {"store", "reply"}) :
          subscribe_cmd(c, args, F)

Unsubscribe(D) ==
    /\ Len(pending) < D.limit
    /\ \E c \in D.chats, args \in ArgLists(D.symbols), F \in Faults(D, {"store", "reply"}) :
          unsubscribe_cmd(c, args, F)

UnsubscribeAll(D) ==
    /\ Len(pending) < D.limit
    /\ \E c \in D.chats, F \in Faults(D, {"store", "reply"}) : unsubscribe_all_cmd(c, F)

SetTime(D) ==
    /\ Len(pending) < D.limit
    /\ \E c \in D.chats, args \in D.times, F \in Faults(D, {"upsert", "reply"}) :
          settime_cmd(c, args, F)

AutoUpdate(D) ==
    /\ Len(pending) < D.limit
    /\ \E c \in D.chats, args \in D.modes, F \in Faults(D, {"get", "upsert", "reply"}) :
          /\ NumJobs(jobs, JobName("daily", c)) < MaxDailyJobs
          /\ autoupdate_cmd(c, args, F)

SetInterval(D) ==
    /\ Len(pending) < D.limit
    /\ \E c \in D.chats, args \in D.minutes, F \in Faults(D, {"upsert", "reply"}) :
          setinterval_cmd(c, args, F)

ClearInterval(D) ==
    /\ Len(pending) < D.limit
    /\ \E c \in D.chats, F \in Faults(D, {"get", "upsert", "reply"}) : clearinterval_cmd(c, F)

Resume(D) ==
    \E i \in 1..Len(pending), reply_ok \in {"reply" \notin F : F \in Faults(D, {"reply"})} :
        \/ autoupdate_resume(i, reply_ok)
        \/ setinterval_resume(i, reply_ok)
        \/ clearinterval_resume(i, reply_ok)

Fire(D) ==
    \E job \in BagToSet(jobs), accept_null \in BOOLEAN,
       F \in Faults(D, {"list", "get", "upsert_schedule", "upsert_interval", "send"}) :
        /\ kind_of(job) = "interval" => job.due_in = 0
        /\ send_rates(job, F, accept_null)

Restart(D) ==
    \E F \in Faults(D, {"schedules", "intervals"}) : on_startup(F)

Step(D) ==
    \/ Subscribe(D)
    \/ Unsubscribe(D)
    \/ UnsubscribeAll(D)
    \/ SetTime(D)
    \/ AutoUpdate(D)
    \/ SetInterval(D)
    \/ ClearInterval(D)
    \/ Resume(D)
    \/ Fire(D)
    \/ minute_passes
    \/ Restart(D)

\* one chat with every kind of argument; the store and the gateway may fail
OneChat ==
    [chats |-> {1}, symbols |-> {btc}, times |-> TimeArgs, modes |-> ModeArgs,
     minutes |-> IntervalArgs, limit |-> ConcurrentUpdates, faults |-> Calls]

Next == Step(OneChat)

Spec == Init /\ [][Next]_vars

\* the same with a store and a gateway that never fail
NextNoFaults == Step([OneChat EXCEPT !.faults = {}])

SpecNoFaults == Init /\ [][NextNoFaults]_vars

\* the same program taking up a second update while a handler is suspended
\* (Application.concurrent_updates), with valid arguments only; replies may fail
TwoAtATime ==
    [chats |-> {1}, symbols |-> {btc}, times |-> {<< <<Field(8), Field(0)>> >>},
     modes |-> {<<"on">>, <<"OFF">>}, minutes |-> {<<Field(1)>>, <<Field(2)>>},
     limit |-> ConcurrentUpdates + 1, faults |-> {"reply"}]

NextConcurrent == Step(TwoAtATime)

SpecConcurrent == Init /\ [][NextConcurrent]_vars

\* two chats with valid arguments; the startup queries may fail
TwoChats ==
    [chats |-> Chats, symbols |-> {btc}, times |-> {<< <<Field(8), Field(0)>> >>},
     modes |-> {<<"on">>, <<"OFF">>}, minutes |-> {<<Field(1)>>},
     limit |-> ConcurrentUpdates, faults |-> {"schedules", "intervals"}]

NextTwoChats == Step(TwoChats)

SpecTwoChats == Init /\ [][NextTwoChats]_vars

(***************************************************************************)
(* The Subscription Store on its own: any caller calling any operation     *)
(* with any argument, each call failing or not. The report of a call holds *)
(* its argument, whether the store failed in it, and the value returned.   *)
(***************************************************************************)
Called(op, chat_id, arg, fail, r) ==
    last' = Report(op, chat_id, [arg |-> arg, fail |-> fail], r.ret, EmptyBag, r.log)

call_add_subscription(D) ==
    \E c \in D.chats, symbol \in D.symbols, fail \in BOOLEAN :
        LET r == add_subscription(subscriptions, c, symbol, fail)
        IN  /\ subscriptions' = r.tbl
            /\ Called("add_subscription", c, symbol, fail, r)
            /\ UNCHANGED <<schedules, intervals, jobs, pending>>

call_remove_subscription(D) ==
    \E c \in D.chats, symbol \in D.symbols, fail \in BOOLEAN :
        LET r == remove_subscription(subscriptions, c, symbol, fail)
        IN  /\ subscriptions' = r.tbl
            /\ Called("remove_subscription", c, symbol, fail, r)
            /\ UNCHANGED <<schedules, intervals, jobs, pending>>

call_clear_subscriptions(D) ==
    \E c \in D.chats, fail \in BOOLEAN :
        LET r == clear_subscriptions(subscriptions, c, fail)
        IN  /\ subscriptions' = r.tbl
            /\ Called("clear_subscriptions", c, <<>>, fail, r)
            /\ UNCHANGED <<schedules, intervals, jobs, pending>>

call_list_subscriptions(D) ==
    \E c \in D.chats, fail \in BOOLEAN :
        LET r == list_subscriptions(subscriptions, c, fail)
        IN  /\ subscriptions' = r.tbl
            /\ Called("list_subscriptions", c, <<>>, fail, r)
            /\ UNCHANGED <<schedules, intervals, jobs, pending>>

call_upsert_schedule(D) ==
    \E c \in D.owners, notify_time \in D.times, enabled \in BOOLEAN,
       accept_null \in BOOLEAN, fail \in BOOLEAN :
        LET r == upsert_schedule(schedules, c, notify_time, enabled, accept_null, fail)
        IN  /\ schedules' = r.tbl
            /\ Called("upsert_schedule", c, <<notify_time, enabled>>, fail, r)
            /\ UNCHANGED <<subscriptions, intervals, jobs, pending>>

call_get_schedule(D) ==
    \E c \in D.owners, fail \in BOOLEAN :
        LET r == get_schedule(schedules, c, fail)
        IN  /\ schedules' = r.tbl
            /\ Called("get_schedule", c, <<>>, fail, r)
            /\ UNCHANGED <<subscriptions, intervals, jobs, pending>>

call_upsert_interval(D) ==
    \E c \in D.owners, interval_minutes \in D.minutes, enabled \in BOOLEAN, fail \in BOOLEAN :
        LET r == upsert_interval(intervals, c, interval_minutes, enabled, fail)
        IN  /\ intervals' = r.tbl
            /\ Called("upsert_interval", c, <<interval_minutes, enabled>>, fail, r)
            /\ UNCHANGED <<subscriptions, schedules, jobs, pending>>

call_get_interval(D) ==
    \E c \in D.owners, fail \in BOOLEAN :
        LET r == get_interval(intervals, c, fail)
        IN  /\ intervals' = r.tbl
            /\ Called("get_interval", c, <<>>, fail, r)
            /\ UNCHANGED <<subscriptions, schedules, jobs, pending>>

\* calls of the subscription operations: three tickers in several letter cases,
\* two chats
SubscriptionCalls == [chats |-> Chats, symbols |-> SymbolArgs]

NextSubscriptions ==
    \/ call_add_subscription(SubscriptionCalls)
    \/ call_remove_subscription(SubscriptionCalls)
    \/ call_clear_subscriptions(SubscriptionCalls)
    \/ call_list_subscriptions(SubscriptionCalls)

SpecSubscriptions == Init /\ [][NextSubscriptions]_vars

\* calls of every operation: two tickers for two chats, the schedules of one chat
\* with and without a time or a period
StoreCalls ==
    [chats |-> Chats, symbols |-> {btc, BTC, USD}, owners |-> {1},
     times |-> {NULL, time_of(8, 0)}, minutes |-> {NULL, 1, 2}]

NextStore ==
    \/ call_add_subscription(StoreCalls)
    \/ call_remove_subscription(StoreCalls)
    \/ call_clear_subscriptions(StoreCalls)
    \/ call_list_subscriptions(StoreCalls)
    \/ call_upsert_schedule(StoreCalls)
    \/ call_get_schedule(StoreCalls)
    \/ call_upsert_interval(StoreCalls)
    \/ call_get_interval(StoreCalls)

SpecStore == Init /\ [][NextStore]_vars

\* /rates of one chat that subscribes to one ticker; each rate function returns any
\* of the prices or None for it
Rates(D) ==
    /\ Len(pending) < D.limit
    /\ \E c \in D.chats, F \in Faults(D, {"list", "reply"}) :
          LET mine == {r.symbol : r \in {x \in subscriptions : x.chat_id = c}}
          IN  \E current \in [mine -> D.prices], yesterday \in [mine -> D.prices] :
                  rates_cmd(c, current, yesterday, F)

Reporting ==
    [chats |-> {1}, symbols |-> {btc}, prices |-> PriceArgs,
     limit |-> ConcurrentUpdates, faults |-> {"list", "reply"}]

NextReport ==
    \/ Subscribe(Reporting)
    \/ UnsubscribeAll(Reporting)
    \/ Rates(Reporting)

SpecReport == Init /\ [][NextReport]_vars

\* two chats: chat 1 sends every command with valid arguments while the
\* subscription calls of its commands may fail; chat 2 only subscribes and sets
\* its schedules up. Timers of both chats fire, and list_subscriptions and the
\* send of a fire may fail.
Sender ==
    [chats |-> {1}, symbols |-> {btc}, times |-> {<< <<Field(8), Field(0)>> >>},
     modes |-> {<<"on">>, <<"OFF">>}, minutes |-> {<<Field(1)>>},
     limit |-> ConcurrentUpdates, faults |-> {"store", "list", "send"}]

Neighbour ==
    [chats |-> {2}, symbols |-> {btc}, times |-> {<< <<Field(8), Field(0)>> >>},
     modes |-> {<<"on">>}, minutes |-> {<<Field(1)>>},
     limit |-> ConcurrentUpdates, faults |-> {}]

NextIsolation ==
    \/ Subscribe(Sender)
    \/ Unsubscribe(Sender)
    \/ UnsubscribeAll(Sender)
    \/ SetTime(Sender)
    \/ AutoUpdate(Sender)
    \/ SetInterval(Sender)
    \/ ClearInterval(Sender)
    \/ Subscribe(Neighbour)
    \/ SetTime(Neighbour)
    \/ AutoUpdate(Neighbour)
    \/ SetInterval(Neighbour)
    \/ Resume(Sender)
    \/ Fire(Sender)
    \/ minute_passes

SpecIsolation == Init /\ [][NextIsolation]_vars

\* every command of one chat with valid arguments, its timers and the restart;
\* subscription calls, list_subscriptions, the provider and replies may fail
SubscribeTop20(D) ==
    /\ Len(pending) < D.limit
    /\ \E c \in D.chats, listing \in D.top20, F \in Faults(D, {"top20", "reply"}) :
          \E failing \in SUBSET (IF "store" \in D.faults
                                  THEN {listing[i] : i \in 1..Len(listing)} ELSE {}) :
              subscribe_top20_cmd(c, listing, failing, F)

List(D) ==
    /\ Len(pending) < D.limit
    /\ \E c \in D.chats, F \in Faults(D, {"list", "reply"}) : list_cmd(c, F)

Commands ==
    [chats |-> {1}, symbols |-> {btc}, top20 |-> {<<>>, <<BTC, ETH>>}, prices |-> {NULL, 100},
     times |-> {<< <<Field(8), Field(0)>> >>}, modes |-> {<<"on">>, <<"OFF">>},
     minutes |-> {<<Field(1)>>}, limit |-> ConcurrentUpdates,
     faults |-> {"store", "list", "top20", "reply"}]

NextCommands ==
    \/ Step(Commands)
    \/ SubscribeTop20(Commands)
    \/ List(Commands)
    \/ Rates(Commands)

SpecCommands == Init /\ [][NextCommands]_vars

\* one chat with valid arguments under a scheduler that does its work: the
\* JobQueue runs every job that is due, time passes, and an awaited reply returns
\* or raises. Replies may fail.
Unattended ==
    [chats |-> {1}, symbols |-> {btc}, times |-> {<< <<Field(8), Field(0)>> >>},
     modes |-> {<<"on">>, <<"OFF">>}, minutes |-> {<<Field(1)>>},
     limit |-> ConcurrentUpdates, faults |-> {"reply"}]

NextFair == Step(Unattended)

Fairness ==
    /\ WF_vars(Fire(Unattended))
    /\ WF_vars(minute_passes)
    /\ WF_vars(Resume(Unattended))

SpecFair == Init /\ [][NextFair]_vars /\ Fairness

\* the same with replies that never fail
NextFairNoFaults == Step([Unattended EXCEPT !.faults = {}])

SpecFairNoFaults == Init /\ [][NextFairNoFaults]_vars /\ Fairness

(***************************************************************************)
(* Properties                                                              *)
(***************************************************************************)
\* no handler is suspended inside its body (a timer callback runs in one step)
Quiescent == pending = <<>>

DailyTimers(q, c) == get_jobs_by_name(q, JobName("daily", c))

IntervalTimers(q, c) == get_jobs_by_name(q, JobName("interval", c))

EnabledSchedule(tbl, c) == {r \in tbl : r.chat_id = c /\ r.enabled}

\* the step's report holds an error-log entry of function_name for the chat
Logged(report, function_name, c) ==
    \E k \in 1..Len(report.logged) : report.logged[k] = LogEntry(function_name, c)

\* C1: at most one daily timer is armed for any chat, whatever sequence of
\* /settime, /autoupdate on, /autoupdate off, timer fires and starts led here.
C1_AtMostOneDailyTimer ==
    \A c \in Chats : NumJobs(jobs, JobName("daily", c)) <= 1

\* C2: a /setinterval n that runs to its end with the status reply delivered
\* leaves exactly one interval timer armed for the chat, with period n; every
\* interval timer the chat had before (an earlier /setinterval m) is cancelled.
\* When nothing ran between its store write and its end and the write
\* succeeded, the stored row is (n, enabled).
C2_SetIntervalReplacesTimer ==
    [][ (last'.op = "setinterval_cmd" /\ last'.outcome = "set") =>
          \E i \in 1..Len(pending) :
              LET h == pending[i]
                  c == h.chat
              IN  /\ h.cmd = "setinterval_cmd"
                  /\ pending' = RemoveAt(pending, i)
                  /\ last'.chat = c
                  /\ NumJobs(jobs', JobName("interval", c)) = 1
                  /\ \A j \in IntervalTimers(jobs', c) : j.trigger = h.param
                  /\ last'.cancelled = jobs_named(jobs, JobName("interval", c))
                  /\ (last.op = "await" /\ last.outcome = "setinterval_cmd"
                        /\ last.chat = c /\ last.logged = <<>>)
                       => {r \in intervals' : r.chat_id = c}
                            = {[chat_id |-> c, interval_minutes |-> h.param, enabled |-> TRUE]}
      ]_vars

\* /setinterval 2 has just replaced the timer of an earlier /setinterval 1
C2_SecondSetIntervalDone ==
    /\ last.op = "setinterval_cmd" /\ last.outcome = "set"
    /\ \E j \in BagToSet(last.cancelled) : j.trigger = 1
    /\ \E j \in IntervalTimers(jobs, last.chat) : j.trigger = 2
    /\ [chat_id |-> last.chat, interval_minutes |-> 2, enabled |-> TRUE] \in intervals

\* C3: whenever no handler is mid-execution, every chat with an enabled
\* schedules row has an armed daily timer and every chat with an enabled
\* intervals row has an armed interval timer.
C3_EnabledScheduleIsArmed ==
    Quiescent =>
        \A c \in Chats :
            /\ EnabledSchedule(schedules, c) # {} => DailyTimers(jobs, c) # {}
            /\ EnabledSchedule(intervals, c) # {} => IntervalTimers(jobs, c) # {}

\* C4: whenever no handler is mid-execution, a daily timer is armed only for an
\* enabled schedules row with the timer's time of day, and an interval timer
\* only for an enabled intervals row with the timer's period.
C4_TimersDerivedFromStore ==
    Quiescent =>
        \A j \in BagToSet(jobs) :
            /\ kind_of(j) = "daily" =>
                  \E r \in EnabledSchedule(schedules, chat_of(j)) : r.notify_time = j.trigger
            /\ kind_of(j) = "interval" =>
                  \E r \in EnabledSchedule(intervals, chat_of(j)) : r.interval_minutes = j.trigger

\* C5: after a start whose queries succeeded, for every chat exactly one daily
\* timer at notify_time is armed if its schedules row is enabled and exactly one
\* interval timer with period interval_minutes if its intervals row is enabled,
\* and no other timer is armed; also when the start follows a crash inside a
\* handler.
C5_StartupArmsEnabledRows ==
    (last.op = "on_startup" /\ last.outcome = "loaded") =>
        /\ \A c \in Chats :
            /\ NumJobs(jobs, JobName("daily", c))
                 = IF EnabledSchedule(schedules, c) # {} THEN 1 ELSE 0
            /\ NumJobs(jobs, JobName("interval", c))
                 = IF EnabledSchedule(intervals, c) # {} THEN 1 ELSE 0
        /\ \A j \in BagToSet(jobs) :
            /\ chat_of(j) \in Chats
            /\ kind_of(j) = "daily" =>
                  \E r \in EnabledSchedule(schedules, chat_of(j)) : r.notify_time = j.trigger
            /\ kind_of(j) = "interval" =>
                  \E r \in EnabledSchedule(intervals, chat_of(j)) : r.interval_minutes = j.trigger

\* a start after a crash inside a handler has armed a daily timer for one chat
\* and an interval timer for another, and none for the first chat's disabled
\* intervals row
C5_StartedAfterCrash ==
    /\ last.op = "on_startup" /\ last.outcome = "loaded" /\ last.detail = "interrupted"
    /\ \E a \in Chats, b \in Chats, r \in intervals :
          /\ a # b
          /\ DailyTimers(jobs, a) # {}
          /\ IntervalTimers(jobs, b) # {}
          /\ r.chat_id = a /\ ~r.enabled
          /\ IntervalTimers(jobs, a) = {}

\* C6: a timer fire for a chat with no subscriptions sends nothing, cancels the
\* timer that fired and no other, and leaves the chat's schedules row and
\* intervals row not enabled (each unless its store write failed and was logged).
C6_EmptyFireCleansUp ==
    [][ \A c \in Chats :
          (last'.op = "send_rates" /\ last'.chat = c
              /\ {r \in subscriptions : r.chat_id = c} = {}) =>
            LET name == JobName(last'.detail, c)
            IN  /\ last'.outcome = "cleanup"
                /\ NumJobs(jobs', name) = NumJobs(jobs, name) - 1
                /\ remove_jobs(jobs', name) = remove_jobs(jobs, name)
                /\ ~Logged(last', "upsert_schedule", c) => EnabledSchedule(schedules', c) = {}
                /\ ~Logged(last', "upsert_interval", c) => EnabledSchedule(intervals', c) = {}
      ]_vars

\* a daily timer has fired with no subscriptions: both rows are now disabled and
\* the interval timer is still armed
C6_DailyFireCleanedUp ==
    /\ last.op = "send_rates" /\ last.detail = "daily" /\ last.outcome = "cleanup"
    /\ last.logged = <<>>
    /\ \E r \in schedules : r.chat_id = last.chat /\ ~r.enabled /\ r.notify_time # NULL
    /\ \E r \in intervals : r.chat_id = last.chat /\ ~r.enabled
    /\ DailyTimers(jobs, last.chat) = {}
    /\ IntervalTimers(jobs, last.chat) # {}

\* C7: when send_message fails in a timer fire, the failure is logged under
\* send_rates and goes no further: the store is unchanged, no handler is
\* disturbed, every timer stays armed, and a repeating timer is next due one
\* period later.
C7_SendFailureIsSwallowed ==
    [][ (last'.op = "send_rates" /\ last'.outcome = "send_failed") =>
          /\ UNCHANGED <<store, pending>>
          /\ {r \in subscriptions : r.chat_id = last'.chat} # {}
          /\ last'.logged = <<LogEntry("send_rates", last'.chat)>>
          /\ \A name \in {j.name : j \in BagToSet(jobs) \cup BagToSet(jobs')} :
                NumJobs(jobs', name) = NumJobs(jobs, name)
          /\ \E job \in get_jobs_by_name(jobs, JobName(last'.detail, last'.chat)) :
                \/ kind_of(job) = "daily" /\ jobs' = jobs
                \/ /\ kind_of(job) = "interval" /\ job.due_in = 0
                   /\ BagIn([job EXCEPT !.due_in = job.trigger], jobs')
                   /\ \A j \in BagToSet(jobs) : j # job => BagIn(j, jobs')
      ]_vars

\* a repeating timer's send has failed and the timer is armed for its next period
C7_IntervalSendFailed ==
    /\ last.op = "send_rates" /\ last.outcome = "send_failed" /\ last.detail = "interval"
    /\ \E j \in IntervalTimers(jobs, last.chat) : j.due_in = j.trigger
    /\ EnabledSchedule(intervals, last.chat) # {}

\* C8: after /clearinterval has run for a chat, no interval timer is armed for
\* it and its intervals row is not enabled, whatever the state before.
C8_ClearIntervalLeavesNoTimer ==
    (last.op = "clearinterval_cmd" /\ last.outcome \in {"cleared", "already_off"}) =>
        /\ IntervalTimers(jobs, last.chat) = {}
        /\ EnabledSchedule(intervals, last.chat) = {}

\* C9: with /setinterval handlers of one chat interleaved with each other and
\* with timer fires (each suspended only at its reply), the chat never has two
\* interval timers armed.
C9_NeverTwoIntervalTimers ==
    \A c \in Chats : NumJobs(jobs, JobName("interval", c)) <= 1

\* one /setinterval has replaced a timer while another /setinterval of the chat,
\* for another period, is suspended at its reply
C9_RearmWhileOtherSuspended ==
    /\ last.op = "setinterval_cmd" /\ last.outcome = "set"
    /\ last.cancelled # EmptyBag
    /\ \E i \in 1..Len(pending), j \in IntervalTimers(jobs, last.chat) :
          /\ pending[i].cmd = "setinterval_cmd" /\ pending[i].chat = last.chat
          /\ pending[i].param # j.trigger

\* C10: an interval timer armed by /setinterval or by a start is due at once;
\* it runs only when due, a run that keeps it armed makes it due one period
\* later, and time does not pass over a due timer.
C10_FirstRunAtOnceThenPeriodic ==
    [][ /\ (last'.op = "setinterval_cmd" /\ last'.outcome = "set") =>
              \A j \in IntervalTimers(jobs', last'.chat) : j.due_in = 0
        /\ last'.op = "on_startup" =>
              \A j \in BagToSet(jobs') : kind_of(j) = "interval" => j.due_in = 0
        /\ (last'.op = "send_rates" /\ last'.detail = "interval") =>
              \E job \in IntervalTimers(jobs, last'.chat) :
                  /\ job.due_in = 0
                  /\ \/ last'.outcome = "cleanup"
                     \/ BagIn([job EXCEPT !.due_in = job.trigger], jobs')
        /\ last'.op = "minute" =>
              /\ \A j \in BagToSet(jobs) : kind_of(j) = "interval" => j.due_in > 0
              /\ \A j \in BagToSet(jobs') :
                    kind_of(j) = "interval" => j.due_in >= 0 /\ j.due_in < j.trigger
      ]_vars

\* a timer of period 2 has run, was armed again for 2 minutes, and one of them
\* has passed
C10_HalfwayToSecondRun ==
    /\ last.op = "minute"
    /\ \E j \in BagToSet(jobs) : kind_of(j) = "interval" /\ j.trigger = 2 /\ j.due_in = 1

\* two texts with the same letters, whatever their case
same_letters(a, b) ==
    Len(a) = Len(b) /\ \A i \in 1..Len(a) : a[i] % 32 = b[i] % 32

\* a text of capital letters only
capitals(a) == \A i \in 1..Len(a) : a[i] >= 65 /\ a[i] <= 90

\* C11: add_subscription stores the symbol in capitals. Adding a symbol the chat
\* already has, in whatever letter case it is given now and was given before,
\* returns false and leaves the table unchanged; adding one the chat does not
\* have returns true and adds exactly that row.
C11_AddNormalizesCase ==
    [][ (last'.op = "add_subscription" /\ ~last'.detail.fail) =>
          LET c == last'.chat
              symbol == last'.detail.arg
              had == {r \in subscriptions : r.chat_id = c /\ same_letters(r.symbol, symbol)}
          IN  /\ \A r \in subscriptions' : capitals(r.symbol)
              /\ had # {} => last'.outcome = FALSE /\ subscriptions' = subscriptions
              /\ had = {} =>
                    /\ last'.outcome = TRUE
                    /\ \E r \in subscriptions' :
                          /\ r.chat_id = c /\ same_letters(r.symbol, symbol)
                          /\ r \notin subscriptions
                          /\ subscriptions' = subscriptions \cup {r}
      ]_vars

\* "btc" was added for a chat that has the row BTC: the call returned false
C11_AddedInAnotherCase ==
    /\ last.op = "add_subscription" /\ ~last.detail.fail
    /\ last.detail.arg = btc /\ last.outcome = FALSE
    /\ {r.symbol : r \in {x \in subscriptions : x.chat_id = last.chat}} = {BTC}

\* C12: remove_subscription that the store does not fail, for a symbol the chat
\* has no row for (in any letter case), returns False and leaves the whole
\* subscriptions table, every chat's rows, as it was; for a symbol the chat has
\* a row for, it returns True and the table afterwards is the table before
\* without exactly that one (chat, symbol) row.
C12_RemoveExactlyThatPair ==
    [][ (last'.op = "remove_subscription" /\ ~last'.detail.fail) =>
          LET c == last'.chat
              symbol == last'.detail.arg
              had == {r \in subscriptions : r.chat_id = c /\ same_letters(r.symbol, symbol)}
          IN  /\ had = {} => last'.outcome = FALSE /\ subscriptions' = subscriptions
              /\ had # {} =>
                    /\ last'.outcome = TRUE
                    /\ Cardinality(had) = 1
                    /\ subscriptions' = subscriptions \ had
                    /\ Cardinality(subscriptions') = Cardinality(subscriptions) - 1
      ]_vars

\* a remove has returned True for one chat while the other chat keeps its row of
\* the same symbol and the chat keeps its other row
C12_RemovedWhileOtherChatKeeps ==
    /\ last.op = "remove_subscription" /\ ~last.detail.fail
    /\ last.detail.arg = btc /\ last.outcome = TRUE
    /\ \E r \in subscriptions : r.chat_id # last.chat /\ r.symbol = BTC
    /\ \E r \in subscriptions : r.chat_id = last.chat /\ r.symbol = ETH

\* C13: clear_subscriptions that the store does not fail returns exactly the
\* number of rows the chat had before the call, leaves the chat without rows
\* and the other chats' rows as they were; when the step before it was also an
\* unfailed clear_subscriptions of the same chat, it returns 0.
C13_ClearReturnsCount ==
    [][ (last'.op = "clear_subscriptions" /\ ~last'.detail.fail) =>
          LET c == last'.chat
              had == {r \in subscriptions : r.chat_id = c}
          IN  /\ last'.outcome = Cardinality(had)
              /\ {r \in subscriptions' : r.chat_id = c} = {}
              /\ {r \in subscriptions' : r.chat_id # c} = {r \in subscriptions : r.chat_id # c}
              /\ (last.op = "clear_subscriptions" /\ ~last.detail.fail /\ last.chat = c)
                    => last'.outcome = 0
      ]_vars

\* a clear has removed two rows of one chat while the other chat has rows
C13_ClearedTwoRows ==
    /\ last.op = "clear_subscriptions" /\ ~last.detail.fail
    /\ last.outcome = 2
    /\ \E r \in subscriptions : r.chat_id # last.chat

\* a comes before b in the alphabet: they agree up to a place where a has the
\* earlier letter, or a is a proper beginning of b
alphabetical(a, b) ==
    \/ \E k \in 1..Len(a) :
          /\ k <= Len(b)
          /\ \A i \in 1..(k - 1) : a[i] = b[i]
          /\ a[k] < b[k]
    \/ Len(a) < Len(b) /\ \A i \in 1..Len(a) : a[i] = b[i]

\* C14: list_subscriptions that the store does not fail returns, for every chat
\* and every table the add/remove/clear operations can build in any order,
\* exactly the symbols of the chat's rows, each once, in ascending alphabetical
\* order, and leaves the table as it was.
C14_ListIsSortedSet ==
    [][ (last'.op = "list_subscriptions" /\ ~last'.detail.fail) =>
          LET c == last'.chat
              symbols == {r.symbol : r \in {x \in subscriptions : x.chat_id = c}}
              ret == last'.outcome
          IN  /\ {ret[i] : i \in 1..Len(ret)} = symbols
              /\ Len(ret) = Cardinality(symbols)
              /\ \A i \in 1..Len(ret) : \A j \in 1..Len(ret) :
                    i < j => alphabetical(ret[i], ret[j])
              /\ subscriptions' = subscriptions
      ]_vars

\* a list has returned three symbols for a chat
C14_ListedThree ==
    /\ last.op = "list_subscriptions" /\ ~last.detail.fail
    /\ last.outcome = <<BTC, ETH, USD>>

\* C15: on every line of a /rates report whose symbol has a current price: when the
\* prior price is present and not 0, the marker is the up-marker when
\* (current - prior) / prior * 100 is positive, the down-marker when it is
\* negative and the neutral-marker when it is 0, the text carries "+" exactly
\* when it is positive and "-" exactly when it is negative, and the number shown
\* is that percentage to the nearest hundredth (prior 100, current 110 shows
\* +10.00 with the up-marker; prior 100, current 90 shows -10.00 with the
\* down-marker); when the prior price is 0 or absent the line shows 0.00 without
\* sign and the neutral-marker, whatever the current price is.
C15_PercentChangeAndMarker ==
    last.op = "rates_cmd" =>
        \A i \in 1..Len(last.detail.lines) :
            LET line == last.detail.lines[i]
                current == last.detail.current[line.sym]
                prior == last.detail.yesterday[line.sym]
                change == (current - prior) * 100
                rose == (current > prior /\ prior > 0) \/ (current < prior /\ prior < 0)
                fell == (current < prior /\ prior > 0) \/ (current > prior /\ prior < 0)
                shown == (IF line.pct_str[1] = "-" THEN -1 ELSE 1) * line.pct_str[2]
            IN  current # NULL =>
                  /\ (prior # NULL /\ prior # 0) =>
                        /\ line.arrow = IF rose THEN "up" ELSE IF fell THEN "down" ELSE "neutral"
                        /\ line.pct_str[1] = IF rose THEN "+" ELSE IF fell THEN "-" ELSE ""
                        /\ 2 * Abs(shown * prior - change * 100) <= Abs(prior)
                        /\ (prior = 100 /\ current = 110) =>
                              line.arrow = "up" /\ line.pct_str = <<"+", 1000>>
                        /\ (prior = 100 /\ current = 90) =>
                              line.arrow = "down" /\ line.pct_str = <<"-", 1000>>
                  /\ (prior = NULL \/ prior = 0) =>
                        line.arrow = "neutral" /\ line.pct_str = <<"", 0>>

\* a report has been sent whose symbol went from 100 to 110
C15_ReportedRise ==
    /\ last.op = "rates_cmd" /\ last.outcome = "replied"
    /\ Len(last.detail.lines) = 1
    /\ last.detail.current[BTC] = 110 /\ last.detail.yesterday[BTC] = 100
    /\ last.detail.lines[1].arrow = "up"
    /\ last.detail.lines[1].pct_str = <<"+", 1000>>

StoreOperations ==
    {"add_subscription", "remove_subscription", "clear_subscriptions", "list_subscriptions",
     "upsert_schedule", "get_schedule", "upsert_interval", "get_interval"}

\* what an operation returns from its except branch
SafeDefault(op, outcome) ==
    CASE op \in {"add_subscription", "remove_subscription"} -> outcome = FALSE
      [] op = "clear_subscriptions" -> outcome = 0
      [] op = "list_subscriptions" -> outcome = <<>>
      [] op = "get_schedule" -> outcome = << <<>>, FALSE >>
      [] op = "get_interval" -> outcome = <<NULL, FALSE>>
      [] OTHER -> outcome = NULL

\* C16: every store operation (add, remove, clear and list of subscriptions, upsert
\* and get of the daily schedule and of the interval) whose storage call fails
\* returns to its caller, logs exactly one error entry that names the operation
\* and the chat, returns its safe default (False for add and remove, 0 for clear,
\* the empty list for list, (None, False) for the two getters, nothing for the two
\* upserts) and leaves the subscriptions, schedules and intervals tables as they
\* were.
C16_StorageFailureIsLoggedAndSafe ==
    [][ (last'.op \in StoreOperations /\ last'.detail.fail) =>
          /\ last'.logged = <<LogEntry(last'.op, last'.chat)>>
          /\ SafeDefault(last'.op, last'.outcome)
          /\ UNCHANGED store
      ]_vars

\* get_schedule has failed for a chat whose schedule row is enabled
C16_GetScheduleFailed ==
    /\ last.op = "get_schedule" /\ last.detail.fail
    /\ EnabledSchedule(schedules, last.chat) # {}
    /\ subscriptions # {}

\* C17: upsert_interval that the store does not fail, called with None for the
\* minutes, leaves a chat without an intervals row without one, and changes of an
\* existing row only enabled, to the value given, keeping its interval_minutes;
\* called with a number of minutes it leaves the chat with exactly one row that
\* holds the minutes and the enabled value given. The rows of other chats and the
\* other tables stay as they were.
C17_NullMinutesKeepsPeriod ==
    [][ (last'.op = "upsert_interval" /\ ~last'.detail.fail) =>
          LET c == last'.chat
              minutes == last'.detail.arg[1]
              enabled == last'.detail.arg[2]
              had == {r \in intervals : r.chat_id = c}
              has == {r \in intervals' : r.chat_id = c}
          IN  /\ {r \in intervals' : r.chat_id # c} = {r \in intervals : r.chat_id # c}
              /\ UNCHANGED <<subscriptions, schedules>>
              /\ (minutes = NULL /\ had = {}) => has = {}
              /\ (minutes = NULL /\ had # {}) =>
                    /\ Cardinality(has) = 1
                    /\ \A r \in has : \A h \in had :
                          r.interval_minutes = h.interval_minutes /\ r.enabled = enabled
              /\ minutes # NULL =>
                    /\ Cardinality(has) = 1
                    /\ \A r \in has : r.interval_minutes = minutes /\ r.enabled = enabled
      ]_vars

\* a call with None for the minutes has disabled a row whose period is 2
C17_DisabledWithoutMinutes ==
    /\ last.op = "upsert_interval" /\ ~last.detail.fail
    /\ last.detail.arg = <<NULL, FALSE>>
    /\ \E r \in intervals :
          r.chat_id = last.chat /\ r.interval_minutes = 2 /\ ~r.enabled

\* the argument of /settime is missing, is not two numbers around a colon, or has
\* its hour outside 0..23 or its minute outside 0..59
BadTime(args) ==
    \/ args = <<>>
    \/ Len(args[1]) # 2
    \/ \E i \in 1..Len(args[1]) : ~args[1][i].int
    \/ args[1][1].val \notin 0..23
    \/ args[1][2].val \notin 0..59

\* the argument of /setinterval is missing, is not a whole number, or is not positive
BadMinutes(args) ==
    \/ args = <<>>
    \/ ~args[1].int
    \/ args[1].val < 1

\* C18: /settime with such a time and /setinterval with such a number of minutes
\* end in one step with the corrective reply (the usage text for a missing
\* argument unless the gateway fails to send it, the format text and a log entry
\* under the handler's name otherwise) and leave the subscriptions, schedules and
\* intervals tables, the job queue and the suspended handlers as they were.
C18_BadArgumentChangesNothing ==
    [][ (\/ last'.op = "settime_cmd" /\ BadTime(last'.detail)
         \/ last'.op = "setinterval_cmd" /\ BadMinutes(last'.detail)) =>
          /\ last'.detail = <<>> => last'.outcome \in {"usage", "reply_failed"}
          /\ last'.detail # <<>> =>
                /\ last'.outcome = "invalid"
                /\ last'.logged = <<LogEntry(last'.op, last'.chat)>>
          /\ UNCHANGED <<store, jobs, pending>>
      ]_vars

\* /settime 24:00 has been answered while the chat has an enabled schedule and a
\* daily timer
C18_RejectedHour24 ==
    /\ last.op = "settime_cmd" /\ last.outcome = "invalid"
    /\ last.detail = << <<Field(24), Field(0)>> >>
    /\ EnabledSchedule(schedules, last.chat) # {}
    /\ DailyTimers(jobs, last.chat) # {}

\* what the program holds for one chat: its rows of the three tables and its jobs
OfChat(c) ==
    <<{r \in subscriptions : r.chat_id = c},
      {r \in schedules : r.chat_id = c},
      {r \in intervals : r.chat_id = c},
      [j \in {x \in BagToSet(jobs) : chat_of(x) = c} |-> jobs[j]]>>

\* C19: every step of a command handler for a chat and every run of a timer of a
\* chat, whether its store calls, its send or its reply fail or not, leaves every
\* other chat's subscriptions, schedules row, intervals row and jobs as they were.
C19_OtherChatsUntouched ==
    [][ \A a \in Chats :
          (last'.chat = a /\ last'.op \notin {"minute", "on_startup"}) =>
              \A b \in Chats \ {a} : OfChat(b)' = OfChat(b)
      ]_vars

\* a send for chat 1 has failed while chat 2 has a subscription, both rows enabled
\* and a timer of each kind
C19_FailedBesideArmedNeighbour ==
    /\ last.op = "send_rates" /\ last.chat = 1 /\ last.outcome = "send_failed"
    /\ \E r \in subscriptions : r.chat_id = 2
    /\ EnabledSchedule(schedules, 2) # {} /\ EnabledSchedule(intervals, 2) # {}
    /\ DailyTimers(jobs, 2) # {} /\ IntervalTimers(jobs, 2) # {}

\* the steps of the schedule commands, their parts after the awaited reply included
ScheduleCommands ==
    {"settime_cmd", "autoupdate_cmd", "setinterval_cmd", "clearinterval_cmd", "await"}

CleanedUp(c) ==
    /\ DailyTimers(jobs, c) = {} /\ IntervalTimers(jobs, c) = {}
    /\ EnabledSchedule(schedules, c) = {} /\ EnabledSchedule(intervals, c) = {}

\* C20: for every chat, if from some point on the chat has no subscription and no
\* step of a schedule command (settime, autoupdate, setinterval, clearinterval)
\* is taken for it, then, the JobQueue running every due job, from some point on
\* the chat has no daily and no interval timer and neither its schedules row nor
\* its intervals row is enabled.
C20_SelfCleanupCompletes ==
    \A c \in Chats :
        (/\ <>[]({r \in subscriptions : r.chat_id = c} = {})
         /\ <>[][~(last'.chat = c /\ last'.op \in ScheduleCommands)]_vars)
            => <>[]CleanedUp(c)

SubscriptionCommands ==
    {"subscribe_cmd", "unsubscribe_cmd", "unsubscribe_all_cmd", "subscribe_top20_cmd",
     "list_cmd", "rates_cmd"}

\* C21: no step of /subscribe, /unsubscribe, /unsubscribe_all, /subscribe_top20,
\* /list or /rates, failing or not, changes a schedules row, an intervals row or
\* the job queue, also when it removes the chat's last subscription; and a step
\* that takes an enabled row of a chat without subscriptions to disabled is a run
\* of a timer of that chat or a step of one of its schedule commands.
C21_SubscriptionCommandsLeaveSchedules ==
    [][ /\ last'.op \in SubscriptionCommands => UNCHANGED <<schedules, intervals, jobs>>
        /\ \A c \in Chats :
              (/\ {r \in subscriptions : r.chat_id = c} = {}
               /\ \/ EnabledSchedule(schedules, c) # {} /\ EnabledSchedule(schedules', c) = {}
                  \/ EnabledSchedule(intervals, c) # {} /\ EnabledSchedule(intervals', c) = {})
                  => /\ last'.chat = c
                     /\ last'.op \in {"send_rates"} \cup ScheduleCommands
      ]_vars

\* /unsubscribe_all has removed the chat's subscriptions while both its rows are
\* enabled and a timer of each kind is armed
C21_EmptiedWhileArmed ==
    /\ last.op = "unsubscribe_all_cmd" /\ last.outcome = "unsubscribed"
    /\ {r \in subscriptions : r.chat_id = last.chat} = {}
    /\ EnabledSchedule(schedules, last.chat) # {} /\ EnabledSchedule(intervals, last.chat) # {}
    /\ DailyTimers(jobs, last.chat) # {} /\ IntervalTimers(jobs, last.chat) # {}

\* C22: a run of a timer of a chat that has subscriptions in the store, also one
\* in which list_subscriptions fails, leaves the chat's schedules row and
\* intervals row enabled as they were and cancels no timer of the chat.
C22_CleanupOnlyWhenTrulyEmpty ==
    [][ \A c \in Chats :
          (last'.op = "send_rates" /\ last'.chat = c
              /\ {r \in subscriptions : r.chat_id = c} # {}) =>
            /\ last'.outcome # "cleanup"
            /\ EnabledSchedule(schedules', c) = EnabledSchedule(schedules, c)
            /\ EnabledSchedule(intervals', c) = EnabledSchedule(intervals, c)
            /\ NumJobs(jobs', JobName("daily", c)) = NumJobs(jobs, JobName("daily", c))
            /\ NumJobs(jobs', JobName("interval", c)) = NumJobs(jobs, JobName("interval", c))
      ]_vars

\* C23: when /setinterval or /autoupdate on arms its timer after the awaited
\* reply, the row it wrote before the reply is still enabled in the store, also
\* when a timer of the chat has run in between: no handler ends having armed a
\* timer for a disabled row.
C23_ArmsOnlyWhatIsStillEnabled ==
    [][ /\ (last'.op = "setinterval_cmd" /\ last'.outcome = "set") =>
              /\ IntervalTimers(jobs', last'.chat) # {}
              /\ EnabledSchedule(intervals', last'.chat) # {}
        /\ (last'.op = "autoupdate_cmd" /\ last'.outcome = "on") =>
              /\ DailyTimers(jobs', last'.chat) # {}
              /\ EnabledSchedule(schedules', last'.chat) # {}
      ]_vars

\* the handler of a command that ends in this step, resumed after its reply
Ended(cmd, arg) ==
    {pending[i] : i \in {k \in 1..Len(pending) :
                            /\ pending[k].cmd = cmd /\ pending[k].arg = arg
                            /\ pending' = RemoveAt(pending, k)}}

\* C24: when /setinterval or /autoupdate on ends with its status reply failed and
\* the row it wrote is enabled in the store, a timer of the chat is armed with the
\* stored period or time of day, and no interval timer with another period.
C24_ArmedThoughReplyFailed ==
    [][ /\ (last'.op = "setinterval_cmd" /\ last'.outcome = "reply_failed") =>
              \A h \in Ended("setinterval_cmd", "set") :
                  [chat_id |-> h.chat, interval_minutes |-> h.param, enabled |-> TRUE]
                          \in intervals' =>
                      /\ IntervalTimers(jobs', h.chat) # {}
                      /\ \A j \in IntervalTimers(jobs', h.chat) : j.trigger = h.param
        /\ (last'.op = "autoupdate_cmd" /\ last'.outcome = "reply_failed") =>
              \A h \in Ended("autoupdate_cmd", "on") :
                  [chat_id |-> h.chat, notify_time |-> h.param, enabled |-> TRUE]
                          \in schedules' =>
                      \E j \in DailyTimers(jobs', h.chat) : j.trigger = h.param
      ]_vars

\* the chats that have a row in the schedules table
ScheduledChats(tbl) == {r.chat_id : r \in tbl}

\* C25: every row of the schedules table has a notify_time, and a chat gets its
\* row only in a step of /settime that stored the time: no other step, a
\* self-cleanup fire included, creates a row or leaves a row without a time.
C25_EveryScheduleHasTime ==
    [][ /\ \A r \in schedules' : r.notify_time # NULL
        /\ \A c \in ScheduledChats(schedules') \ ScheduledChats(schedules) :
              /\ last'.op = "settime_cmd" /\ last'.chat = c
              /\ last'.outcome \in {"set", "reply_failed"}
      ]_vars

====
